---- MODULE Spec2Model ----
(***************************************************************************)
(* A model of bocoel's Manager (src/bocoel/core/exams/managers.py): the    *)
(* run loop that drives an Optimizer, the run identity (md5), and the      *)
(* persistence of result tables keyed by that identity.                    *)
(***************************************************************************)
EXTENDS Integers, Sequences, FiniteSets, TLC

VARIABLES
    pc,         \* position of Manager.run / Manager._launch
    steps,      \* the steps argument of run (NoSteps for None)
    optim,      \* the optimizer driven by run: successful steps before its end, how it ends, calls made
    i,          \* how many values steps_range has handed out
    bar,        \* the count shown by the alive_bar
    pending,    \* the mapping the generator has yielded and run has not merged yet
    yields,     \* every mapping yielded so far, in step order
    results,    \* run's accumulator, an OrderedDict
    scores,     \* what run returned to its caller
    now,        \* the wall clock, in seconds
    dir,        \* what the output path is on disk: "absent", "file" or "dir"
    files,      \* the csv files of the output directory: name -> lines
    mgr,        \* the Manager objects
    saved,      \* the (descriptor tuple, start time) pairs whose save completed
    loaded,     \* the outcome of the latest Manager.load
    callA,      \* the latest direct call of Manager.md5
    callB       \* the direct call of Manager.md5 before it

vars == <<pc, steps, optim, i, bar, pending, yields, results, scores,
          now, dir, files, mgr, saved, loaded, callA, callB>>

runVars == <<pc, steps, optim, i, bar, pending, yields, results, scores>>
storeVars == <<now, dir, files, mgr, saved, loaded>>
md5Vars == <<callA, callB>>

-----------------------------------------------------------------------------
(* Bounds and input sets *)

MaxN == 3           \* the optimizer yields at most this many step results
MaxSteps == 4       \* the largest steps budget tried
MaxTick == 1        \* the clock stops after this many seconds
MaxCalls == 2       \* calls of with_identifier_cols / save, over all Managers

NoSteps == -1       \* steps = None
None == "None"      \* path = None
OutPath == "out"    \* the output directory the Managers are given

Keys == {0, 1}      \* corpus row indices an optimizer step may report
Scores == {1, 2}    \* the scores it may give them

Managers == {1, 2}

-----------------------------------------------------------------------------
(* Manager._launch and Manager.run *)

\* A step result: a Mapping[int, float] from some corpus rows to their scores.
Mappings == UNION {[K -> Scores] : K \in SUBSET Keys}

NoMapping == [k \in {} |-> 0]

\* The orders in which a set may be iterated.
Orderings(S) ==
    {o \in [1..Cardinality(S) -> S] : \A a, b \in DOMAIN o : a # b => o[a] # o[b]}

\* The items of a mapping, iterated in the given order of its keys.
Items(m, order) == [a \in DOMAIN order |-> <<order[a], m[order[a]]>>]

\* The keys of an OrderedDict, held as its sequence of (key, value) items.
KeysOf(d) == {d[a][1] : a \in DOMAIN d}

\* d[k] (k in KeysOf(d)).
ValueOf(d, k) == LET a == CHOOSE a \in DOMAIN d : d[a][1] = k IN d[a][2]

\* SetItem gone wrong: a key already present keeps its first value.
SetItemKeepFirst(d, k, v) ==
    IF k \in KeysOf(d) THEN d ELSE Append(d, <<k, v>>)

\* OrderedDict.__setitem__: an existing key keeps its place and takes the new
\* value, a new key goes last.
SetItem(d, k, v) ==
    IF k \in KeysOf(d)
    THEN [a \in DOMAIN d |-> IF d[a][1] = k THEN <<k, v>> ELSE d[a]]
    ELSE Append(d, <<k, v>>)

\* OrderedDict.update(res): one __setitem__ per item of res, in res's order.
RECURSIVE Update(_, _)
Update(d, items) ==
    IF items = <<>> THEN d
    ELSE Update(SetItem(d, items[1][1], items[1][2]), Tail(items))

\* RangeHasNext gone wrong: the loop runs on whatever the budget.
RangeIgnoresBudget(s, n) == TRUE

\* for _ in steps_range: range(steps) hands out steps values, count() never ends.
RangeHasNext(s, n) == s = NoSteps \/ n < s

\* What optimizer.step() does on its next call: the stub of the specification,
\* n successful steps and then its terminal signal.
StepOutcome(o) ==
    IF o.calls < o.n THEN "result"
    ELSE IF o.ending = "exhausted" THEN "StopIteration" ELSE "Error"

\* OnRaise gone wrong: a bare except, every error breaks the loop.
OnRaiseSwallowAll(exc) == "examine"

\* try: optimizer.step() except StopIteration: break.  Where control goes when
\* step() raises.
OnRaise(exc) == IF exc = "StopIteration" THEN "examine" ELSE "raised"

\* Examinator.examine(index, results): the scored table, one row per evaluated
\* corpus row.
Examine(res) == [a \in DOMAIN res |-> [index |-> res[a][1], score |-> res[a][2]]]

NoScores == [returned |-> FALSE, rows |-> <<>>]

\* run is called: results = OrderedDict(), the generator is created.
RunCall ==
    /\ pc = "idle"
    /\ pc' = "next"
    /\ results' = <<>>
    /\ UNCHANGED <<steps, optim, i, bar, pending, yields, scores>>
    /\ UNCHANGED storeVars /\ UNCHANGED md5Vars

\* The for loop of run asks the generator for its next value; steps_range has
\* one: bar() and on to optimizer.step().
LaunchBar ==
    /\ pc = "next"
    /\ RangeHasNext(steps, i)
    /\ i' = i + 1
    /\ bar' = bar + 1
    /\ pc' = "step"
    /\ UNCHANGED <<steps, optim, pending, yields, results, scores>>
    /\ UNCHANGED storeVars /\ UNCHANGED md5Vars

\* steps_range is used up: the generator returns and run's loop ends.
LaunchRangeEnd ==
    /\ pc = "next"
    /\ ~RangeHasNext(steps, i)
    /\ pc' = "examine"
    /\ UNCHANGED <<steps, optim, i, bar, pending, yields, results, scores>>
    /\ UNCHANGED storeVars /\ UNCHANGED md5Vars

\* optimizer.step() returns a mapping, which the generator yields.
LaunchYield ==
    /\ pc = "step"
    /\ StepOutcome(optim) = "result"
    /\ \E res \in Mappings :
          /\ pending' = res
          /\ yields' = Append(yields, res)
    /\ optim' = [optim EXCEPT !.calls = @ + 1]
    /\ pc' = "yielded"
    /\ UNCHANGED <<steps, i, bar, results, scores>>
    /\ UNCHANGED storeVars /\ UNCHANGED md5Vars

\* optimizer.step() raises: StopIteration breaks the loop, anything else
\* leaves the generator and run.
LaunchRaise ==
    /\ pc = "step"
    /\ StepOutcome(optim) # "result"
    /\ optim' = [optim EXCEPT !.calls = @ + 1]
    /\ pc' = OnRaise(StepOutcome(optim))
    /\ UNCHANGED <<steps, i, bar, pending, yields, results, scores>>
    /\ UNCHANGED storeVars /\ UNCHANGED md5Vars

\* results.update(res)
RunUpdate ==
    /\ pc = "yielded"
    /\ \E order \in Orderings(DOMAIN pending) :
          results' = Update(results, Items(pending, order))
    /\ pending' = NoMapping
    /\ pc' = "next"
    /\ UNCHANGED <<steps, optim, i, bar, yields, scores>>
    /\ UNCHANGED storeVars /\ UNCHANGED md5Vars

\* scores = self.examinator.examine(...); return scores
RunReturn ==
    /\ pc = "examine"
    /\ scores' = [returned |-> TRUE, rows |-> Examine(results)]
    /\ pc' = "returned"
    /\ UNCHANGED <<steps, optim, i, bar, pending, yields, results>>
    /\ UNCHANGED storeVars /\ UNCHANGED md5Vars

RunNext ==
    \/ RunCall
    \/ LaunchBar
    \/ LaunchRangeEnd
    \/ LaunchYield
    \/ LaunchRaise
    \/ RunUpdate
    \/ RunReturn

-----------------------------------------------------------------------------
(* Manager.current and Manager.md5 *)

\* The str() of each collaborator a caller may pass.  FaissIndex.__repr__ is
\* "FaissIndex(<index_string>, <dims>)": descriptors hold spaces.
Optimizers == {"opt", "opt2"}
Embedders == {"emb", "emb2"}
Indexes == {"i", "i s"}
Storages == {"s", "s s"}
Models == {"lm", "lm2"}
Adaptors == {"ad", "ad2"}

Corpora == [index : Indexes, storage : Storages]

AllArgs ==
    [optimizer : Optimizers, corpus : Corpora, model : Models,
     adaptor : Adaptors, embedder : Embedders]

BaseArgs ==
    [optimizer |-> "opt", corpus |-> [index |-> "i", storage |-> "s"],
     model |-> "lm", adaptor |-> "ad", embedder |-> "emb"]

ArgNames == {"optimizer", "corpus", "model", "adaptor", "embedder"}

\* The argument positions in which two argument records differ.
DiffArgs(a, b) == {f \in ArgNames : a[f] # b[f]}

\* The collaborators the Managers are called with: the base configuration
\* and every configuration one argument away from it.
ArgSets == {a \in AllArgs : Cardinality(DiffArgs(a, BaseArgs)) <= 1}

\* dt.datetime.now().strftime("%Y-%m-%d-%H-%M-%S"): the clock to the second.
Current(t) == "2026-11-01-00-00-0" \o ToString(t)

Times == {Current(t) : t \in 0..MaxTick}

\* " ".join(items)
RECURSIVE Join(_, _)
Join(items, sep) ==
    IF items = <<>> THEN ""
    ELSE IF Len(items) = 1 THEN items[1]
    ELSE items[1] \o sep \o Join(Tail(items), sep)

\* hashlib.md5(...).hexdigest(), taken as collision-free: distinct byte
\* strings have distinct digests.
HexDigest(bytes) == "md5<" \o bytes \o ">"

\* The data list of Manager.md5, each item through str().
Md5Data(optimizer, corpus, model, adaptor, embedder, time) ==
    <<optimizer, embedder, corpus.index, corpus.storage, model, adaptor, time>>

Md5(optimizer, corpus, model, adaptor, embedder, time) ==
    HexDigest(Join(Md5Data(optimizer, corpus, model, adaptor, embedder, time), " "))

\* The run's descriptor tuple: the six descriptors the identity is built from.
Descriptors(a) ==
    <<a.optimizer, a.embedder, a.corpus.index, a.corpus.storage, a.model, a.adaptor>>

NoCall == [args |-> BaseArgs, time |-> "", digest |-> ""]

\* A direct call of the static method Manager.md5.
CallMd5 ==
    /\ \E a \in AllArgs, t \in Times :
          callA' = [args |-> a, time |-> t,
                    digest |-> Md5(a.optimizer, a.corpus, a.model, a.adaptor, a.embedder, t)]
    /\ callB' = callA
    /\ UNCHANGED runVars /\ UNCHANGED storeVars

-----------------------------------------------------------------------------
(* Manager.__init__, with_identifier_cols, save, load *)

\* The tables the callers hold: what run returns, rows of (index, score).
Table1 == <<[index |-> 0, score |-> 1], [index |-> 1, score |-> 2]>>
Table2 == <<[index |-> 0, score |-> 2]>>
TableOf(m) == IF m = 1 THEN Table1 ELSE Table2

\* The collaborators the concurrent Managers are called with.
StoreArgs == {a \in ArgSets : DiffArgs(a, BaseArgs) \subseteq {"optimizer", "corpus"}}

NoPrev == [valid |-> FALSE, args |-> BaseArgs, md5 |-> ""]

NoWrite == [valid |-> FALSE, args |-> BaseArgs, name |-> ""]

\* A Manager: path and start are its attributes; op, df, args, md5 and out
\* are the method it is in and that call's arguments and locals; err is what
\* its latest call raised; prev is the identity its previous call computed
\* and wrote the file its latest completed save wrote.
NewManager ==
    [pc |-> "new", path |-> None, start |-> "", op |-> "", df |-> <<>>,
     args |-> BaseArgs, md5 |-> "", out |-> <<>>, err |-> "", calls |-> 0,
     prev |-> NoPrev, wrote |-> NoWrite]

\* if path.exists() and not path.is_dir(): raise ValueError
InitRejects(p, d) == p # None /\ d = "file"

\* path.mkdir(parents=True, exist_ok=True)
Mkdir(p, d) == IF p # None THEN "dir" ELSE d

\* Manager(path)
Construct(m, p) ==
    /\ mgr[m].pc = "new"
    /\ IF InitRejects(p, dir)
       THEN /\ mgr' = [mgr EXCEPT ![m].pc = "invalid", ![m].err = "ValueError"]
            /\ UNCHANGED dir
       ELSE /\ dir' = Mkdir(p, dir)
            /\ mgr' = [mgr EXCEPT ![m].pc = "ready", ![m].path = p,
                                  ![m].start = Current(now)]
    /\ UNCHANGED <<now, files, saved, loaded>>
    /\ UNCHANGED runVars /\ UNCHANGED md5Vars

\* Time passes.
Tick ==
    /\ now < MaxTick
    /\ now' = now + 1
    /\ UNCHANGED <<dir, files, mgr, saved, loaded>>
    /\ UNCHANGED runVars /\ UNCHANGED md5Vars

\* The eight assign(column, data) calls on one row.
Assign(row, a, start, md5) ==
    [index |-> row.index, score |-> row.score,
     optimizer |-> a.optimizer, model |-> a.model, adaptor |-> a.adaptor,
     index_descr |-> a.corpus.index, storage |-> a.corpus.storage,
     embedder |-> a.embedder, time |-> start, md5 |-> md5]

\* df = df.copy(): the local df names a new object ("copy"), not the caller's
\* ("arg").
CopyRef == "copy"

\* IdentityTime gone wrong: the time of the call, not of construction.
ClockTime(self, t) == Current(t)

\* The time with_identifier_cols hands to md5: self._start.
IdentityTime(self, t) == self.start

\* Manager.with_identifier_cols(df, ...): the identity, the augmented table,
\* and the caller's table as the call leaves it.
WithIdentifierCols(self, df, a, t) ==
    LET time == IdentityTime(self, t)
        md5 == Md5(a.optimizer, a.corpus, a.model, a.adaptor, a.embedder, time)
        aug == [r \in DOMAIN df |-> Assign(df[r], a, self.start, md5)]
    IN  [md5 |-> md5, out |-> aug, df |-> IF CopyRef = "arg" THEN aug ELSE df]

\* Method op of Manager m is called and runs with_identifier_cols.
Identify(m, op, df, a) ==
    /\ mgr[m].pc = "ready"
    /\ mgr[1].calls + mgr[2].calls < MaxCalls
    /\ LET r == WithIdentifierCols(mgr[m], df, a, now)
       IN  mgr' = [mgr EXCEPT ![m].pc = "identified", ![m].op = op, ![m].args = a,
                              ![m].df = r.df, ![m].md5 = r.md5, ![m].out = r.out,
                              ![m].err = "", ![m].calls = @ + 1]
    /\ UNCHANGED <<now, dir, files, saved, loaded>>
    /\ UNCHANGED runVars /\ UNCHANGED md5Vars

\* manager.save(df, ...) is called: its first statement.
SaveCall(m, df, a) == Identify(m, "save", df, a)

\* manager.with_identifier_cols(df, ...) is called by the caller itself.
IdentifyCall(m, df, a) == Identify(m, "with_identifier_cols", df, a)

\* The locals of a finished call are gone; the identity it gave is remembered.
Finished(self, err) ==
    [self EXCEPT !.pc = "ready", !.op = "", !.df = <<>>, !.md5 = "", !.out = <<>>,
                 !.err = err,
                 !.prev = [valid |-> TRUE, args |-> self.args, md5 |-> self.md5]]

\* A direct call of with_identifier_cols returns.
IdentifyReturn(m) ==
    /\ mgr[m].pc = "identified"
    /\ mgr[m].op = "with_identifier_cols"
    /\ mgr' = [mgr EXCEPT ![m] = Finished(mgr[m], "")]
    /\ UNCHANGED <<now, dir, files, saved, loaded>>
    /\ UNCHANGED runVars /\ UNCHANGED md5Vars

\* PathCheck gone wrong: the check is missing.
PathCheckPasses(self) == TRUE

\* if self.path is None: raise ValueError
PathCheck(self) == self.path # None

SaveCheckPath(m) ==
    /\ mgr[m].pc = "identified"
    /\ mgr[m].op = "save"
    /\ IF PathCheck(mgr[m])
       THEN mgr' = [mgr EXCEPT ![m].pc = "checked"]
       ELSE mgr' = [mgr EXCEPT ![m] = Finished(mgr[m], "ValueError")]
    /\ UNCHANGED <<now, dir, files, saved, loaded>>
    /\ UNCHANGED runVars /\ UNCHANGED md5Vars

\* self.path / f"{md5}.csv"
FileName(md5) == md5 \o ".csv"

Header == [columns |-> "index,score,optimizer,model,adaptor,index,storage,embedder,time,md5"]

\* The lines to_csv(index=False) writes for a table.
CsvLines(table) == <<Header>> \o table

\* Writing lines from offset 0 into a file that already holds old.
WriteAt0(old, lines) == lines \o SubSeq(old, Len(lines) + 1, Len(old))

Put(fs, name, lines) == [n \in DOMAIN fs \cup {name} |-> IF n = name THEN lines ELSE fs[n]]

\* to_csv opens the file for writing: it is created, or cut to zero bytes.
SaveOpen(m) ==
    /\ mgr[m].pc = "checked"
    /\ files' = Put(files, FileName(mgr[m].md5), <<>>)
    /\ mgr' = [mgr EXCEPT ![m].pc = "writing"]
    /\ UNCHANGED <<now, dir, saved, loaded>>
    /\ UNCHANGED runVars /\ UNCHANGED md5Vars

\* to_csv writes the table and closes the file; save returns.
SaveWrite(m) ==
    /\ mgr[m].pc = "writing"
    /\ LET name == FileName(mgr[m].md5)
       IN  files' = Put(files, name, WriteAt0(files[name], CsvLines(mgr[m].out)))
    /\ saved' = saved \cup {<<Descriptors(mgr[m].args), mgr[m].start>>}
    /\ mgr' = [mgr EXCEPT ![m] =
                  [Finished(mgr[m], "") EXCEPT
                      !.wrote = [valid |-> TRUE, args |-> mgr[m].args,
                                 name |-> FileName(mgr[m].md5)]]]
    /\ UNCHANGED <<now, dir, loaded>>
    /\ UNCHANGED runVars /\ UNCHANGED md5Vars

\* Path(path).glob("*.csv"): nothing unless path is a directory.
Glob(p, d, fs) == IF d = "dir" THEN DOMAIN fs ELSE {}

\* pd.read_csv: the rows under the header line.
ReadCsv(lines) == Tail(lines)

\* pd.concat(dfs)
RECURSIVE Concat(_)
Concat(dfs) == IF dfs = <<>> THEN <<>> ELSE dfs[1] \o Concat(Tail(dfs))

\* PdConcat gone wrong: only the first table is kept.
ConcatFirstOnly(dfs) == dfs[1]

PdConcat(dfs) == Concat(dfs)

\* The body of Manager.load for one glob order.
LoadOutcome(order, fs) ==
    IF \E k \in DOMAIN order : fs[order[k]] = <<>>
    THEN [status |-> "EmptyDataError", rows |-> <<>>]
    ELSE LET dfs == [k \in DOMAIN order |-> ReadCsv(fs[order[k]])]
         IN  IF dfs = <<>>
             THEN [status |-> "ValueError", rows |-> <<>>]
             ELSE [status |-> "ok", rows |-> PdConcat(dfs)]

\* Manager.load(path), called by the thread that also drives Manager 1, so
\* not while that thread is inside another call.
Load ==
    /\ mgr[1].pc \in {"new", "invalid", "ready"}
    /\ \E order \in Orderings(Glob(OutPath, dir, files)) :
          LET r == LoadOutcome(order, files)
          IN  loaded' = [status |-> r.status, rows |-> r.rows, n |-> 1 - loaded.n]
    /\ UNCHANGED <<now, dir, files, mgr, saved>>
    /\ UNCHANGED runVars /\ UNCHANGED md5Vars

-----------------------------------------------------------------------------
(* Specifications *)

NoFiles == [n \in {} |-> <<>>]

NotLoaded == [status |-> "none", rows |-> <<>>, n |-> 0]

RunIdle ==
    /\ pc = "idle"
    /\ steps \in {NoSteps} \cup 0..MaxSteps
    /\ optim \in [n : 0..MaxN, ending : {"exhausted", "fatal"}, calls : {0}]
    /\ i = 0
    /\ bar = 0
    /\ pending = NoMapping
    /\ yields = <<>>
    /\ results = <<>>
    /\ scores = NoScores

\* run is not called.
RunUnused ==
    /\ pc = "idle"
    /\ steps = NoSteps
    /\ optim = [n |-> 0, ending |-> "exhausted", calls |-> 0]
    /\ i = 0
    /\ bar = 0
    /\ pending = NoMapping
    /\ yields = <<>>
    /\ results = <<>>
    /\ scores = NoScores

Md5Idle ==
    /\ callA = NoCall
    /\ callB = NoCall

\* One Manager has been constructed with an output directory, and its run has
\* not been called yet.
Init ==
    /\ RunIdle
    /\ Md5Idle
    /\ now = 0
    /\ dir = Mkdir(OutPath, "absent")
    /\ mgr = [m \in Managers |->
                IF m = 1
                THEN [NewManager EXCEPT !.pc = "ready", !.path = OutPath,
                                        !.start = Current(0)]
                ELSE NewManager]
    /\ files = NoFiles
    /\ saved = {}
    /\ loaded = NotLoaded

\* The caller of run saves the table run returned.
CallerSave ==
    /\ pc = "returned"
    /\ \/ SaveCall(1, scores.rows, BaseArgs)
       \/ SaveCheckPath(1)
       \/ SaveOpen(1)
       \/ SaveWrite(1)

Next ==
    \/ RunNext
    \/ CallerSave

Spec == Init /\ [][Next]_vars

\* One thread of control drives run: a step that can be taken is taken.
FairSpec == Spec /\ WF_vars(RunNext)

\* No Manager exists yet; the output path is absent, a file or a directory.
StoreInit ==
    /\ RunUnused
    /\ Md5Idle
    /\ now = 0
    /\ dir \in {"absent", "file", "dir"}
    /\ files = NoFiles
    /\ mgr = [m \in Managers |-> NewManager]
    /\ saved = {}
    /\ loaded = NotLoaded

StoreNext ==
    \/ \E m \in Managers, p \in {None, OutPath} : Construct(m, p)
    \/ Tick
    \/ \E m \in Managers, a \in StoreArgs : SaveCall(m, TableOf(m), a)
    \/ \E m \in Managers, a \in StoreArgs : IdentifyCall(m, TableOf(m), a)
    \/ \E m \in Managers : IdentifyReturn(m)
    \/ \E m \in Managers : SaveCheckPath(m)
    \/ \E m \in Managers : SaveOpen(m)
    \/ \E m \in Managers : SaveWrite(m)

StoreSpec == StoreInit /\ [][StoreNext]_vars

\* One Manager saves into the output path and Manager.load reads it.
LoadNext ==
    \/ \E p \in {None, OutPath} : Construct(1, p)
    \/ \E a \in ArgSets : SaveCall(1, TableOf(1), a)
    \/ SaveCheckPath(1)
    \/ SaveOpen(1)
    \/ SaveWrite(1)
    \/ Load

LoadSpec == StoreInit /\ [][LoadNext]_vars

\* Manager.md5 called directly, over every combination of collaborators.
Md5Init ==
    /\ RunUnused
    /\ Md5Idle
    /\ now = 0
    /\ dir = "absent"
    /\ files = NoFiles
    /\ mgr = [m \in Managers |-> NewManager]
    /\ saved = {}
    /\ loaded = NotLoaded

Md5Spec == Md5Init /\ [][CallMd5]_vars

-----------------------------------------------------------------------------
(* Properties of the run loop (Spec, FairSpec) *)

\* How many step results run has when it stops, by the claim: n, or the
\* budget if that is smaller.
ExpectedResults ==
    IF steps = NoSteps \/ steps > optim.n THEN optim.n ELSE steps

\* C1: against an optimizer that signals EXHAUSTED on the call after its n-th
\* successful step, once the loop of run has ended exactly n results were
\* yielded when steps is None or steps > n and exactly steps results when
\* steps <= n, and run does return.
C1_RunStopsAtFirst ==
    /\ [](optim.ending = "exhausted" /\ pc \in {"examine", "returned"}
              => Len(yields) = ExpectedResults)
    /\ [](pc = "returned" => scores.returned /\ scores.rows = Examine(results))
    /\ (optim.ending = "exhausted" ~> pc = "returned")

\* C1 witness: with no budget, the optimizer's third step was its last and run
\* has returned with three results.
C1_Witness ==
    /\ pc = "returned"
    /\ steps = NoSteps
    /\ optim = [n |-> 3, ending |-> "exhausted", calls |-> 4]
    /\ Len(yields) = 3

\* The steps that yielded key k.
StepsWith(k) == {j \in DOMAIN yields : k \in DOMAIN yields[j]}

\* The latest step that yielded key k.
LatestWith(k) == CHOOSE j \in StepsWith(k) : \A l \in StepsWith(k) : l <= j

\* C2: whenever run is not in the middle of merging a step result, the keys of
\* its accumulator are the union of the keys of all mappings yielded so far,
\* each key once, and the value of each key is the score the latest step
\* holding that key gave it.
C2_LastWriteWins ==
    pc # "yielded" =>
        /\ KeysOf(results) = UNION {DOMAIN yields[j] : j \in DOMAIN yields}
        /\ Len(results) = Cardinality(KeysOf(results))
        /\ \A k \in KeysOf(results) : ValueOf(results, k) = yields[LatestWith(k)][k]

\* C2 witness: three steps; key 0 was scored 1, then 2, and is absent from the
\* third step, which brought key 1; run returned key 0 with score 2.
C2_Witness ==
    /\ pc = "returned"
    /\ Len(yields) = 3
    /\ 0 \in DOMAIN yields[1] /\ yields[1][0] = 1
    /\ 0 \in DOMAIN yields[2] /\ yields[2][0] = 2
    /\ DOMAIN yields[3] = {1}
    /\ ValueOf(results, 0) = 2

\* C3: when optimizer.step() raises anything but StopIteration, control leaves
\* run with that error; from then on step() is not called again, run has
\* returned no table and the output directory holds no file; and a run that
\* returned saw no such error.
C3_FatalAborts ==
    /\ [][pc = "step" /\ StepOutcome(optim) = "Error" => pc' = "raised"]_vars
    /\ [](pc = "raised" =>
              /\ optim.ending = "fatal"
              /\ optim.calls = optim.n + 1
              /\ scores = NoScores
              /\ files = NoFiles)
    /\ [][pc = "raised" => UNCHANGED <<pc, optim, scores, files, results>>]_vars
    /\ [](pc \in {"examine", "returned"} =>
              optim.ending = "exhausted" \/ optim.calls <= optim.n)

\* C3 witness: the third call of step() raised after two steps had been merged.
C3_Witness ==
    /\ pc = "raised"
    /\ Len(yields) = 2
    /\ results # <<>>
    /\ optim.calls = 3

\* C10: between iterations and once the loop has ended, by the budget or by
\* EXHAUSTED, the count on the progress bar is the number of step results
\* yielded and merged.
C10_ProgressCountsCompleted ==
    pc \in {"next", "examine", "returned"} => bar = Len(yields)

-----------------------------------------------------------------------------
(* Properties of Manager.md5 (Md5Spec) *)

\* The positions among (optimizer, corpus, model, adaptor, embedder, time) in
\* which two calls of md5 differ.
DiffPositions(a, b) ==
    DiffArgs(a.args, b.args) \cup (IF a.time # b.time THEN {"time"} ELSE {})

\* C4: two calls of md5 with the same six arguments give the same identity,
\* and two calls that differ in exactly one of the six give different ones.
C4_Md5Sensitive ==
    callA.digest # "" /\ callB.digest # "" =>
        /\ DiffPositions(callA, callB) = {} => callA.digest = callB.digest
        /\ Cardinality(DiffPositions(callA, callB)) = 1 => callA.digest # callB.digest

-----------------------------------------------------------------------------
(* Properties of persistence (StoreSpec, LoadSpec) *)

\* No to_csv is between opening its file and writing it.
NoWriteInFlight == \A m \in Managers : mgr[m].pc # "writing"

\* C5: when no write is in flight, the output directory holds as many result
\* files as there are distinct (descriptor tuple, start time) pairs saved.
C5_OneFilePerCombination ==
    NoWriteInFlight => Cardinality(DOMAIN files) = Cardinality(saved)

\* The configuration of Manager m's latest completed save.
SavedConfig(m) == <<Descriptors(mgr[m].wrote.args), mgr[m].start>>

\* The lines Manager m's latest completed save had to write.
SavedLines(m) ==
    CsvLines(WithIdentifierCols(mgr[m], TableOf(m), mgr[m].wrote.args, now).out)

\* C6: when two Managers have each completed a save and no call is running,
\* Managers whose configurations differ wrote different files and each file
\* holds exactly its Manager's table.
C6_OwnFilePerManager ==
    \A m1, m2 \in Managers :
        (/\ m1 # m2
         /\ mgr[m1].wrote.valid /\ mgr[m2].wrote.valid
         /\ mgr[m1].pc = "ready" /\ mgr[m2].pc = "ready"
         /\ SavedConfig(m1) # SavedConfig(m2))
        => /\ mgr[m1].wrote.name # mgr[m2].wrote.name
           /\ files[mgr[m1].wrote.name] = SavedLines(m1)

\* A step of Manager m.
StepOf(m) == mgr'[m] # mgr[m]

\* C7: a Manager without a path never gets past the path check of save, which
\* raises ValueError, and none of its steps changes the files; a constructed
\* Manager with a path has its directory, and its save creates or truncates
\* the file <identity>.csv, then writes it, touching no other file.
C7_SaveNeedsPath ==
    /\ [](\A m \in Managers :
              mgr[m].path = None =>
                  /\ mgr[m].pc \notin {"checked", "writing"}
                  /\ ~mgr[m].wrote.valid)
    /\ [][\A m \in Managers :
              mgr[m].path = None /\ StepOf(m) => files' = files]_vars
    /\ [][\A m \in Managers :
              (/\ mgr[m].path = None
               /\ mgr[m].pc = "identified" /\ mgr[m].op = "save"
               /\ StepOf(m))
              => mgr'[m].pc = "ready" /\ mgr'[m].err = "ValueError"]_vars
    /\ [](\A m \in Managers :
              mgr[m].path # None /\ mgr[m].pc \notin {"new", "invalid"} => dir = "dir")
    /\ [][\A m \in Managers :
              (/\ mgr[m].path # None
               /\ mgr[m].pc \in {"checked", "writing"}
               /\ StepOf(m))
              => LET name == FileName(Md5(mgr[m].args.optimizer, mgr[m].args.corpus,
                                          mgr[m].args.model, mgr[m].args.adaptor,
                                          mgr[m].args.embedder, mgr[m].start))
                 IN  /\ DOMAIN files' = DOMAIN files \cup {name}
                     /\ \A n \in DOMAIN files \ {name} : files'[n] = files[n]
                     /\ mgr[m].pc = "writing" =>
                            /\ mgr'[m].err = ""
                            /\ SubSeq(files'[name], 1, Len(mgr[m].out) + 1)
                                   = CsvLines(mgr[m].out)]_vars

\* C7 witness: Manager 1, without a path, had its save raise ValueError, and
\* Manager 2, with one, has written its file.
C7_Witness ==
    /\ mgr[1].path = None /\ mgr[1].pc = "ready" /\ mgr[1].err = "ValueError"
    /\ mgr[2].path = OutPath /\ mgr[2].wrote.valid
    /\ DOMAIN files = {mgr[2].wrote.name}

\* The rows of file n stand together, in order, somewhere in rows.
HoldsBlock(rows, lines) ==
    \E off \in 0..Len(rows) : SubSeq(rows, off + 1, off + Len(lines) - 1) = Tail(lines)

RECURSIVE SumRows(_, _)
SumRows(fs, names) ==
    IF names = {} THEN 0
    ELSE LET n == CHOOSE n \in names : TRUE
         IN  Len(fs[n]) - 1 + SumRows(fs, names \ {n})

\* C8: a load of a path that is absent, is not a directory or holds no result
\* file raises ValueError and returns no table; a load of a directory with
\* result files returns all their rows: as many rows as the files hold
\* together, each file's rows as one block.
C8_LoadAllOrFail ==
    [][loaded'.n # loaded.n =>
          IF dir # "dir" \/ DOMAIN files = {}
          THEN loaded'.status = "ValueError" /\ loaded'.rows = <<>>
          ELSE /\ loaded'.status = "ok"
               /\ Len(loaded'.rows) = SumRows(files, DOMAIN files)
               /\ \A n \in DOMAIN files : HoldsBlock(loaded'.rows, files[n])]_vars

\* C8 witness: a load returned the rows of two result files.
C8_Witness ==
    /\ loaded.status = "ok"
    /\ Cardinality(DOMAIN files) = 2
    /\ Len(loaded.rows) = 2 * Len(Table1)

\* C9: when with_identifier_cols returns, the caller's table is as it was, the
\* identity is md5 of the given descriptors and the start time recorded at
\* construction, every row of the returned table carries that identity and
\* start time, and the identity is the one the previous call gave for the same
\* descriptors; the recorded start time never changes.
C9_IdentifierCols ==
    /\ [](\A m \in Managers :
              mgr[m].pc = "identified" =>
                  /\ mgr[m].df = TableOf(m)
                  /\ mgr[m].md5 = Md5(mgr[m].args.optimizer, mgr[m].args.corpus,
                                      mgr[m].args.model, mgr[m].args.adaptor,
                                      mgr[m].args.embedder, mgr[m].start)
                  /\ Len(mgr[m].out) = Len(mgr[m].df)
                  /\ \A r \in DOMAIN mgr[m].out :
                        /\ mgr[m].out[r].md5 = mgr[m].md5
                        /\ mgr[m].out[r].time = mgr[m].start
                        /\ mgr[m].out[r].index = mgr[m].df[r].index
                        /\ mgr[m].out[r].score = mgr[m].df[r].score
                  /\ (mgr[m].prev.valid /\ mgr[m].prev.args = mgr[m].args
                          => mgr[m].prev.md5 = mgr[m].md5))
    /\ [][\A m \in Managers :
              mgr[m].pc \notin {"new", "invalid"} => mgr'[m].start = mgr[m].start]_vars

\* C9 witness: a Manager's second call with the same descriptors has returned
\* the same identity, a second after the Manager was constructed.
C9_Witness ==
    \E m \in Managers :
        /\ mgr[m].pc = "identified"
        /\ mgr[m].prev.valid /\ mgr[m].prev.args = mgr[m].args
        /\ mgr[m].prev.md5 = mgr[m].md5
        /\ Current(now) # mgr[m].start

====
